---- MODULE Spec2Model ----
(***************************************************************************)
(* Model of calculate_ari.py: the ARI congruence pipeline.                 *)
(*                                                                         *)
(* Text values (identifiers, labels, column names) are sequences of        *)
(* one-character strings, so that clean_id, str.lower, str.strip and the   *)
(* "%.2f" rendering of a threshold are computed character by character.    *)
(* A data frame is a record [columns, rows]: the column names in order and *)
(* the rows in order, each row a sequence of values aligned with columns.  *)
(***************************************************************************)
EXTENDS Integers, Sequences, FiniteSets, TLC

\* ------------------------------------------------------------------ text

\* Text constants used by the code or by the inputs.
Seq_ID == <<"S","e","q","_","I","D">>
Cluster_ID_ == <<"C","l","u","s","t","e","r","_","I","D","_">>
genus == <<"g","e","n","u","s">>
family == <<"f","a","m","i","l","y">>
order == <<"o","r","d","e","r">>
phylum == <<"p","h","y","l","u","m">>
na == <<"n","a">>
unclassified == <<"u","n","c","l","a","s","s","i","f","i","e","d">>

\* A missing value (pandas NaN / None).  It is not a text: its only element
\* is not a character.
NaN == <<"NaN">>

isna(v) == v = NaN

\* The characters re's [:.\s] matches, among those the inputs use.
TrailChars == {":", ".", " "}

RECURSIVE StripTrail(_)
StripTrail(s) ==
  IF s # <<>> /\ s[Len(s)] \in TrailChars
  THEN StripTrail(SubSeq(s, 1, Len(s) - 1))
  ELSE s

\* clean_id: a non-text value is returned unchanged; a text loses its
\* trailing run of ':', '.' and whitespace.
clean_id(seq_id) ==
  IF isna(seq_id) THEN seq_id ELSE StripTrail(seq_id)

\* str.lower on one character.
LowerChar(c) ==
  CASE c = "A" -> "a" [] c = "B" -> "b" [] c = "C" -> "c" [] c = "D" -> "d"
    [] c = "E" -> "e" [] c = "F" -> "f" [] c = "G" -> "g" [] c = "H" -> "h"
    [] c = "I" -> "i" [] c = "L" -> "l" [] c = "M" -> "m" [] c = "N" -> "n"
    [] c = "O" -> "o" [] c = "P" -> "p" [] c = "R" -> "r" [] c = "S" -> "s"
    [] c = "T" -> "t" [] c = "U" -> "u" [] c = "Y" -> "y" [] c = "Z" -> "z"
    [] OTHER -> c

lower(s) == [i \in 1..Len(s) |-> LowerChar(s[i])]

\* str.upper on one character (for str.capitalize).
UpperChar(c) ==
  CASE c = "g" -> "G" [] c = "f" -> "F" [] c = "o" -> "O" [] c = "p" -> "P"
    [] OTHER -> c

\* str.capitalize: first character upper-cased, the rest lower-cased.
capitalize(s) ==
  [i \in 1..Len(s) |-> IF i = 1 THEN UpperChar(s[i]) ELSE LowerChar(s[i])]

RECURSIVE StripLead(_)
StripLead(s) ==
  IF s # <<>> /\ s[1] = " " THEN StripLead(Tail(s)) ELSE s

RECURSIVE StripEnd(_)
StripEnd(s) ==
  IF s # <<>> /\ s[Len(s)] = " "
  THEN StripEnd(SubSeq(s, 1, Len(s) - 1))
  ELSE s

\* str.strip: leading and trailing whitespace removed.
strip(s) == StripEnd(StripLead(s))

Digit(d) ==
  CASE d = 0 -> "0" [] d = 1 -> "1" [] d = 2 -> "2" [] d = 3 -> "3"
    [] d = 4 -> "4" [] d = 5 -> "5" [] d = 6 -> "6" [] d = 7 -> "7"
    [] d = 8 -> "8" [] d = 9 -> "9"

\* f'{threshold:.2f}' for a threshold given in tenths (9 is 0.9): the
\* value in hundredths, rendered as units, a point and two decimals.
Fmt2(threshold) ==
  LET h == threshold * 10
  IN  <<Digit(h \div 100), ".", Digit((h \div 10) % 10), Digit(h % 10)>>

\* f'Cluster_ID_{threshold:.2f}'
ClusterCol(threshold) == Cluster_ID_ \o Fmt2(threshold)

\* ------------------------------------------------------------ data frames

\* Position of a column name in a frame's column list (0 when absent).
ColIndex(columns, name) ==
  IF \E i \in 1..Len(columns) : columns[i] = name
  THEN CHOOSE i \in 1..Len(columns) :
         columns[i] = name /\ \A j \in 1..(i - 1) : columns[j] # name
  ELSE 0

HasCol(df, name) == ColIndex(df.columns, name) # 0

\* df[name]: the values of one column, in row order.
Column(df, name) ==
  [r \in 1..Len(df.rows) |-> df.rows[r][ColIndex(df.columns, name)]]

RECURSIVE Concat(_)
Concat(ss) == IF ss = <<>> THEN <<>> ELSE Head(ss) \o Concat(Tail(ss))

\* pd.read_csv(cluster_file, sep='\t', names=['Seq_ID', 'Cluster_ID_x'])
\* followed by df_cluster['Seq_ID'].apply(clean_id): the two-column frame
\* of a readable cluster file whose lines are <<identifier, label>>.
LoadCluster(lines, threshold) ==
  [columns |-> <<Seq_ID, ClusterCol(threshold)>>,
   rows    |-> [i \in 1..Len(lines) |-> <<clean_id(lines[i][1]), lines[i][2]>>]]

\* pd.merge(left, right, on='Seq_ID', how='left'): every left row, in
\* order, once per right row with the same key (in the right's order), or
\* once with a missing value when no right row has its key.
merge_left(left, right) ==
  LET k == ColIndex(left.columns, Seq_ID)
      Matches(lrow) == SelectSeq(right.rows, LAMBDA rrow : rrow[1] = lrow[k])
      Joined(lrow) ==
        IF Matches(lrow) = <<>>
        THEN <<lrow \o <<NaN>>>>
        ELSE [m \in 1..Len(Matches(lrow)) |-> lrow \o <<Matches(lrow)[m][2]>>]
  IN  [columns |-> left.columns \o <<right.columns[2]>>,
       rows    |-> Concat([r \in 1..Len(left.rows) |-> Joined(left.rows[r])])]

\* Variant of assign_none that then drops the rows with a missing value,
\* which is every row.
assign_none_dropna(df, threshold) ==
  [columns |-> df.columns \o <<ClusterCol(threshold)>>, rows |-> <<>>]

\* df_merged[f'Cluster_ID_{threshold:.2f}'] = None
assign_none(df, threshold) ==
  [columns |-> df.columns \o <<ClusterCol(threshold)>>,
   rows    |-> [r \in 1..Len(df.rows) |-> df.rows[r] \o <<NaN>>]]

\* df_merged.columns = [col.lower().strip() for col in df_merged.columns]
normalize_columns(df) ==
  [columns |-> [c \in 1..Len(df.columns) |-> strip(lower(df.columns[c]))],
   rows    |-> df.rows]

\* --------------------------------------------------------------- scores

\* A score is a rational number num/den in lowest terms (den > 0), or
\* float('nan').
nan == [defined |-> FALSE, num |-> 0, den |-> 1]

Abs(x) == IF x < 0 THEN -x ELSE x

RECURSIVE Gcd(_, _)
Gcd(a, b) == IF b = 0 THEN a ELSE Gcd(b, a % b)

Rat(n, d) ==
  LET g == Gcd(Abs(n), d)
  IN  [defined |-> TRUE, num |-> n \div g, den |-> d \div g]

One == Rat(1, 1)

\* The distinct values of a column (Series.unique()).
unique(col) == {col[i] : i \in 1..Len(col)}

\* Variant of adjusted_rand_score without the special case for identical
\* partitions: the quotient alone, NaN when it is 0/0.
adjusted_rand_score_quotient_only(labels_true, labels_pred) ==
  LET n == Len(labels_true)
      Pairs == {p \in (1..n) \X (1..n) : p[1] # p[2]}
      SameT(p) == labels_true[p[1]] = labels_true[p[2]]
      SameP(p) == labels_pred[p[1]] = labels_pred[p[2]]
      tp == Cardinality({p \in Pairs : SameT(p) /\ SameP(p)})
      fn == Cardinality({p \in Pairs : SameT(p) /\ ~SameP(p)})
      fp == Cardinality({p \in Pairs : ~SameT(p) /\ SameP(p)})
      tn == Cardinality({p \in Pairs : ~SameT(p) /\ ~SameP(p)})
      den == (tp + fn) * (fn + tn) + (tp + fp) * (fp + tn)
  IN  IF den = 0 THEN nan ELSE Rat(2 * (tp * tn - fn * fp), den)

\* sklearn.metrics.adjusted_rand_score(labels_true, labels_pred), from the
\* pair confusion matrix: over the ordered pairs of distinct positions, tp
\* counts those together in both labelings, fn those together only in
\* labels_true, fp those together only in labels_pred, tn those apart in
\* both.  Identical partitions (fn = fp = 0) score 1.0 by special case.
adjusted_rand_score(labels_true, labels_pred) ==
  LET n == Len(labels_true)
      Pairs == {p \in (1..n) \X (1..n) : p[1] # p[2]}
      SameT(p) == labels_true[p[1]] = labels_true[p[2]]
      SameP(p) == labels_pred[p[1]] = labels_pred[p[2]]
      tp == Cardinality({p \in Pairs : SameT(p) /\ SameP(p)})
      fn == Cardinality({p \in Pairs : SameT(p) /\ ~SameP(p)})
      fp == Cardinality({p \in Pairs : ~SameT(p) /\ SameP(p)})
      tn == Cardinality({p \in Pairs : ~SameT(p) /\ ~SameP(p)})
  IN  IF fn = 0 /\ fp = 0
      THEN One
      ELSE Rat(2 * (tp * tn - fn * fp),
               (tp + fn) * (fn + tn) + (tp + fp) * (fp + tn))

\* df_merged[[rank_label_col, cluster_label_col]].copy().dropna(): the two
\* columns as pairs, without the rows where either value is missing.
dropna_pairs(df, rank_label_col, cluster_label_col) ==
  LET ranks == Column(df, rank_label_col)
      clusters == Column(df, cluster_label_col)
      pairs == [r \in 1..Len(df.rows) |-> <<ranks[r], clusters[r]>>]
  IN  SelectSeq(pairs, LAMBDA p : ~isna(p[1]) /\ ~isna(p[2]))

\* Variant of excluded_labels that forgets 'unclassified'.
excluded_labels_na_only == {na}

\* The rank labels that do not count as a classification: ['na', 'unclassified'].
excluded_labels == {na, unclassified}

\* Variant of valid_rows that compares the labels without lower-casing them.
valid_rows_case_sensitive(df_calc) ==
  SelectSeq(df_calc, LAMBDA p : p[1] \notin {na, unclassified})

\* df_calc[~df_calc[rank].astype(str).str.lower().isin(['na', 'unclassified'])]
valid_rows(df_calc) ==
  SelectSeq(df_calc, LAMBDA p : lower(p[1]) \notin excluded_labels)

\* Variant of has_variability that does not look at the cluster labels.
has_variability_rank_only(num_valid, rank_labels, cluster_labels) ==
  /\ num_valid > 1
  /\ Cardinality(unique(rank_labels)) > 1

\* The condition under which the ARI is calculated: more than one valid row
\* and more than one distinct value in each of the two label columns.
has_variability(num_valid, rank_labels, cluster_labels) ==
  /\ num_valid > 1
  /\ Cardinality(unique(rank_labels)) > 1
  /\ Cardinality(unique(cluster_labels)) > 1

\* The body of the (rank, threshold) loop: one Score Record.
score_record(df, mode_name, rank, threshold) ==
  LET valid == valid_rows(dropna_pairs(df, rank, lower(ClusterCol(threshold))))
      num_valid == Len(valid)
      rank_labels == [i \in 1..num_valid |-> valid[i][1]]
      cluster_labels == [i \in 1..num_valid |-> valid[i][2]]
      ari_score ==
        IF has_variability(num_valid, rank_labels, cluster_labels)
        THEN adjusted_rand_score(rank_labels, cluster_labels)
        ELSE nan
  IN  [Coverage_Mode  |-> mode_name,
       Taxonomic_Rank |-> capitalize(rank),
       AAI_Threshold  |-> Fmt2(threshold),
       ARI_Score      |-> ari_score,
       N_Sequences    |-> num_valid]

\* ------------------------------------------------------------- parameters

\* thresholds = [0.9, 0.7, 0.5, 0.3], in tenths.
thresholds == <<9, 7, 5, 3>>

taxonomic_ranks == <<genus, family, order, phylum>>

\* The declared coverage modes: the default one and the first of those the
\* source's note names as addable.
coverage_modes == <<"cov_short_80", "cov_short_50">>

\* The rank and threshold loops over the normalized merged frame: the Score
\* Records in rank-major order, absent columns skipped.
score_records(df, mode_name) ==
  LET PerRank(rank) ==
        IF ~HasCol(df, rank)
        THEN <<>>
        ELSE Concat([t \in 1..Len(thresholds) |->
               IF ~HasCol(df, lower(ClusterCol(thresholds[t])))
               THEN <<>>
               ELSE <<score_record(df, mode_name, rank, thresholds[t])>>])
  IN  Concat([k \in 1..Len(taxonomic_ranks) |-> PerRank(taxonomic_ranks[k])])

\* ---------------------------------------------------------- summary matrix

RatAdd(a, b) == Rat(a.num * b.den + b.num * a.den, a.den * b.den)

RECURSIVE RatSum(_)
RatSum(scores) ==
  IF scores = <<>> THEN Rat(0, 1) ELSE RatAdd(Head(scores), RatSum(Tail(scores)))

\* The aggregation of one group (aggfunc 'mean'): the mean of the group's
\* defined scores; a group without a defined score aggregates to NaN.
group_mean(scores) ==
  LET defined == SelectSeq(scores, LAMBDA x : x.defined)
      total == RatSum(defined)
  IN  IF defined = <<>> THEN nan ELSE Rat(total.num, total.den * Len(defined))

\* round(4) of a score: the nearest multiple of 1/10000, ties to even, as
\* an integer count of 1/10000; NaN stays NaN.
round4(score) ==
  IF ~score.defined
  THEN [defined |-> FALSE, v |-> 0]
  ELSE LET q == (score.num * 10000) \div score.den
           r == (score.num * 10000) % score.den
       IN  [defined |-> TRUE,
            v |-> IF 2 * r > score.den \/ (2 * r = score.den /\ q % 2 = 1)
                  THEN q + 1
                  ELSE q]

\* final_df.pivot_table(index='Taxonomic_Rank',
\*     columns=['Coverage_Mode', 'AAI_Threshold'], values='ARI_Score').round(4)
\* with the defaults aggfunc='mean', dropna=True: the records are grouped by
\* (rank, mode, threshold), the groups whose mean is NaN are dropped, and the
\* remaining groups are unstacked into rows (ranks) and columns
\* ((mode, threshold) pairs); a cell without a group is NaN.
pivot_table(final_df) ==
  LET Key(rec) == <<rec.Taxonomic_Rank, rec.Coverage_Mode, rec.AAI_Threshold>>
      keys == {Key(final_df[i]) : i \in 1..Len(final_df)}
      Group(k) == SelectSeq(final_df, LAMBDA rec : Key(rec) = k)
      Mean(k) == group_mean([i \in 1..Len(Group(k)) |-> Group(k)[i].ARI_Score])
      agged == {k \in keys : Mean(k).defined}
      index == {k[1] : k \in agged}
      columns == {<<k[2], k[3]>> : k \in agged}
  IN  [index   |-> index,
       columns |-> columns,
       cell    |-> [rc \in index \X columns |->
                     IF <<rc[1], rc[2][1], rc[2][2]>> \in agged
                     THEN round4(Mean(<<rc[1], rc[2][1], rc[2][2]>>))
                     ELSE round4(nan)]]

\* ------------------------------------------------------------ file system

labels_id_ == <<"l","a","b","e","l","s","_","i","d","_">>
dot_tsv == <<".","t","s","v">>

\* f'labels_id_{threshold:.2f}.tsv'
ClusterFileName(threshold) == labels_id_ \o Fmt2(threshold) \o dot_tsv

\* pd.read_csv(taxonomy_file, sep='\t') of a parseable file, the first column
\* renamed to Seq_ID and its values passed through clean_id.
read_taxonomy(file) ==
  [columns |-> <<Seq_ID>> \o Tail(file.header),
   rows    |-> [i \in 1..Len(file.lines) |->
                 <<clean_id(file.lines[i][1])>> \o Tail(file.lines[i])]]

\* Variant of CopySharesFrame for df_merged = taxonomy_df without copy().
AssignmentSharesFrame == TRUE

\* taxonomy_df.copy() returns a new frame: df_merged does not share the
\* object df_tax names.
CopySharesFrame == FALSE

\* One iteration of the merge loop.  st.merged is df_merged, st.tax is the
\* caller's taxonomy frame, st.shared tells whether both name one object (so
\* that an in-place change of df_merged is a change of the taxonomy frame),
\* st.raised whether an exception has left the loop.  A file that does not
\* exist raises FileNotFoundError, which the loop handles; an existing file
\* that cannot be read raises another OSError, which it does not.
merge_threshold(st, dir, threshold) ==
  LET name == ClusterFileName(threshold)
  IN  IF st.raised THEN st
      ELSE IF name \notin DOMAIN dir.files
      THEN [st EXCEPT !.merged = assign_none(@, threshold),
                      !.tax = IF st.shared THEN assign_none(@, threshold) ELSE @]
      ELSE IF ~dir.files[name].readable \/ ~HasCol(st.merged, Seq_ID)
      THEN [st EXCEPT !.raised = TRUE]
      ELSE [st EXCEPT !.merged = merge_left(@, LoadCluster(dir.files[name].lines,
                                                            threshold)),
                      !.shared = FALSE]

\* The merge loop over a threshold list, in order.
RECURSIVE merge_loop(_, _, _)
merge_loop(st, dir, thrs) ==
  IF thrs = <<>> THEN st
  ELSE merge_loop(merge_threshold(st, dir, Head(thrs)), dir, Tail(thrs))

\* df_merged = taxonomy_df.copy() followed by the merge loop.
merge_all(taxonomy_df, dir, thrs) ==
  merge_loop([merged |-> taxonomy_df, tax |-> taxonomy_df,
              shared |-> CopySharesFrame, raised |-> FALSE], dir, thrs)

\* ------------------------------------------------------------------ inputs

\* The most rows a generated taxonomy file has.
MaxRows == 2

g1 == <<"g","1">>
g2 == <<"g","2">>
c1 == <<"c","1">>
c2 == <<"c","2">>
Unclassified == <<"U","n","c","l","a","s","s","i","f","i","e","d">>
Na == <<"N","a">>

\* The identifier of each taxonomy line as written in the file, some with a
\* trailing run that clean_id removes.
RawIds == <<<<"A">>, <<"B",".">>, <<"C",":"," ">>, <<"D">>, <<"E">>>>

\* The values of a rank column: two genera, the two sentinels in mixed
\* case, and a missing value.
RankLabels == {g1, g2, Unclassified, Na, NaN}

NameHeader == <<"N","a","m","e">>
GenusHeader == <<" ","G","e","n","u","s">>
SpeciesHeader == <<"S","p","e","c","i","e","s">>
FamilyHeader == <<"F","A","M","I","L","Y"," ">>
f1 == <<"f","1">>

TaxFile(header, labels) ==
  [parseable |-> TRUE,
   header    |-> <<NameHeader, header>>,
   lines     |-> [i \in 1..Len(labels) |-> <<RawIds[i], labels[i]>>]]

\* A taxonomy file pd.read_csv cannot parse.
UnparseableFile == [parseable |-> FALSE, header |-> <<>>, lines |-> <<>>]

\* genus = [g1, g1, g2, g2] over A, B, C, D.
PartitionTaxFile == TaxFile(GenusHeader, <<g1, g1, g2, g2>>)

\* genus = [g1, g2, "Unclassified"] over A, B, C.
UnclassifiedTaxFile == TaxFile(GenusHeader, <<g1, g2, Unclassified>>)

\* A taxonomy file without any of the four rank columns.
NoRankTaxFile == TaxFile(SpeciesHeader, <<g1, g2>>)

\* A taxonomy file with two rank columns: genus = [g1, g2, g2] and family =
\* [f1, f1, missing] over A, B, C.
TwoRankTaxFile ==
  [parseable |-> TRUE,
   header    |-> <<NameHeader, GenusHeader, FamilyHeader>>,
   lines     |-> <<<<RawIds[1], g1, f1>>, <<RawIds[2], g2, f1>>,
                   <<RawIds[3], g2, NaN>>>>]

TaxFiles ==
  {TaxFile(GenusHeader, labels) :
     labels \in UNION {[1..n -> RankLabels] : n \in 0..MaxRows}}
  \cup {PartitionTaxFile, UnclassifiedTaxFile, NoRankTaxFile, TwoRankTaxFile,
        UnparseableFile}

ReadableFile(lines) == [readable |-> TRUE, lines |-> lines]

\* An existing file that cannot be opened for reading.
UnreadableFile == [readable |-> FALSE, lines |-> <<>>]

\* {A:c1, B:c2, C:c1}
AlternatingLines == <<<<<<"A">>, c1>>, <<<<"B">>, c2>>, <<<<"C">>, c1>>>>

\* {A:c1, B:c1, C:c2, D:c2}
PartitionLines ==
  <<<<<<"A",".">>, c1>>, <<<<"B">>, c1>>, <<<<"C">>, c2>>, <<<<"D">>, c2>>>>

\* A twice (once as "A."), an identifier the taxonomy does not have, and B.
DuplicateLines ==
  <<<<<<"A">>, c1>>, <<<<"A",".">>, c2>>, <<<<"Z">>, c1>>, <<<<"B">>, c2>>>>

ThresholdSet == {thresholds[i] : i \in 1..Len(thresholds)}

ModeSet == {coverage_modes[i] : i \in 1..Len(coverage_modes)}

NoDir == [isdir |-> FALSE, files |-> <<>>]

\* A mode directory holding the alternating file for every threshold.
NominalFiles ==
  [name \in {ClusterFileName(t) : t \in ThresholdSet} |->
     ReadableFile(AlternatingLines)]

Without(files, name) == [x \in (DOMAIN files) \ {name} |-> files[x]]

\* A mode directory holding one cluster file only.
OnlyFileDir(t, lines) ==
  [isdir |-> TRUE,
   files |-> [name \in {ClusterFileName(t)} |-> ReadableFile(lines)]]

\* The mode directories: none, the nominal one, the nominal one with the
\* file of one threshold missing, unreadable or of other content, and the
\* two directories that hold the single file of a worked example.
Dirs ==
  {NoDir, [isdir |-> TRUE, files |-> NominalFiles],
   OnlyFileDir(9, PartitionLines), OnlyFileDir(7, AlternatingLines)}
  \cup {[isdir |-> TRUE, files |-> Without(NominalFiles, ClusterFileName(t))] :
          t \in ThresholdSet}
  \cup {[isdir |-> TRUE,
         files |-> [NominalFiles EXCEPT ![ClusterFileName(t)] = f]] :
          t \in ThresholdSet,
          f \in {UnreadableFile, ReadableFile(PartitionLines),
                 ReadableFile(DuplicateLines)}}

\* The base cluster directories: one directory (or none) per declared mode,
\* at most one of them other than absent or nominal.
FileSystems ==
  {f \in [ModeSet -> Dirs] :
     Cardinality({m \in ModeSet :
                    f[m] \notin {NoDir, [isdir |-> TRUE, files |-> NominalFiles]}})
       <= 1}

\* ----------------------------------------------------------- state machine

NoFrame == [columns |-> <<>>, rows |-> <<>>]

NotWritten == [written |-> FALSE, index |-> {}, columns |-> {}, cell |-> <<>>]

VARIABLES
  taxonomy_file,   \* the taxonomy file (input)
  fs,              \* base_cluster_dir: mode name -> directory (input)
  pc,              \* position of main
  df_tax,          \* main's taxonomy frame
  mode_i,          \* index of the mode the loop of main is at
  df_merged,       \* calculate_ari_for_mode's merged frame
  shared,          \* whether df_merged and df_tax name one object
  results_list,    \* calculate_ari_for_mode's list of Score Records
  all_results,     \* main's list of per-mode record tables
  output_file      \* the output file

vars == <<taxonomy_file, fs, pc, df_tax, mode_i, df_merged, shared,
          results_list, all_results, output_file>>

Init ==
  /\ taxonomy_file \in TaxFiles
  /\ fs \in FileSystems
  /\ pc = "load"
  /\ df_tax = NoFrame
  /\ mode_i = 1
  /\ df_merged = NoFrame
  /\ shared = FALSE
  /\ results_list = <<>>
  /\ all_results = <<>>
  /\ output_file = NotWritten

\* main, step 1, the except branch: the taxonomy file cannot be parsed; the
\* error is printed and main returns.
TaxonomyError ==
  /\ pc = "load"
  /\ ~taxonomy_file.parseable
  /\ pc' = "aborted_taxonomy"
  /\ UNCHANGED <<taxonomy_file, fs, df_tax, mode_i, df_merged, shared,
                 results_list, all_results, output_file>>

\* main, step 1: the taxonomy file is loaded and standardized.
LoadTaxonomy ==
  /\ pc = "load"
  /\ taxonomy_file.parseable
  /\ df_tax' = read_taxonomy(taxonomy_file)
  /\ pc' = "modes"
  /\ UNCHANGED <<taxonomy_file, fs, mode_i, df_merged, shared, results_list,
                 all_results, output_file>>

\* calculate_ari_for_mode for a mode without directory: a warning, None is
\* returned and main appends nothing.
SkipMode ==
  /\ pc = "modes"
  /\ mode_i <= Len(coverage_modes)
  /\ ~fs[coverage_modes[mode_i]].isdir
  /\ mode_i' = mode_i + 1
  /\ UNCHANGED <<taxonomy_file, fs, pc, df_tax, df_merged, shared,
                 results_list, all_results, output_file>>

\* calculate_ari_for_mode, the copy and the merge loop, every file loaded.
MergeThresholds ==
  /\ pc = "modes"
  /\ mode_i <= Len(coverage_modes)
  /\ fs[coverage_modes[mode_i]].isdir
  /\ LET st == merge_all(df_tax, fs[coverage_modes[mode_i]], thresholds)
     IN  /\ ~st.raised
         /\ df_merged' = st.merged
         /\ df_tax' = st.tax
         /\ shared' = st.shared
  /\ pc' = "merged"
  /\ UNCHANGED <<taxonomy_file, fs, mode_i, results_list, all_results,
                 output_file>>

\* calculate_ari_for_mode, the merge loop left by an exception it does not
\* handle: the exception leaves main too and the process dies.
MergeRaises ==
  /\ pc = "modes"
  /\ mode_i <= Len(coverage_modes)
  /\ fs[coverage_modes[mode_i]].isdir
  /\ merge_all(df_tax, fs[coverage_modes[mode_i]], thresholds).raised
  /\ pc' = "crashed"
  /\ UNCHANGED <<taxonomy_file, fs, df_tax, mode_i, df_merged, shared,
                 results_list, all_results, output_file>>

\* calculate_ari_for_mode, the column normalization and the rank and
\* threshold loops: df_merged gets its normalized column names, in place,
\* and results_list the Score Records.
ScoreMode ==
  /\ pc = "merged"
  /\ df_merged' = normalize_columns(df_merged)
  /\ df_tax' = IF shared THEN normalize_columns(df_merged) ELSE df_tax
  /\ results_list' = score_records(normalize_columns(df_merged),
                                   coverage_modes[mode_i])
  /\ pc' = "scored"
  /\ UNCHANGED <<taxonomy_file, fs, mode_i, shared, all_results, output_file>>

\* calculate_ari_for_mode returns the table of its records and main appends
\* it to all_results.
ReturnMode ==
  /\ pc = "scored"
  /\ all_results' = Append(all_results, results_list)
  /\ df_merged' = NoFrame
  /\ shared' = FALSE
  /\ results_list' = <<>>
  /\ mode_i' = mode_i + 1
  /\ pc' = "modes"
  /\ UNCHANGED <<taxonomy_file, fs, df_tax, output_file>>

\* main, step 4: no mode returned a table; the message is printed and main
\* returns.
NoResults ==
  /\ pc = "modes"
  /\ mode_i > Len(coverage_modes)
  /\ all_results = <<>>
  /\ pc' = "aborted_no_results"
  /\ UNCHANGED <<taxonomy_file, fs, df_tax, mode_i, df_merged, shared,
                 results_list, all_results, output_file>>

\* main, step 4: the concatenated table has no record, hence no ARI_Score
\* column, and pivot_table raises KeyError.
PivotRaises ==
  /\ pc = "modes"
  /\ mode_i > Len(coverage_modes)
  /\ all_results # <<>>
  /\ Concat(all_results) = <<>>
  /\ pc' = "crashed"
  /\ UNCHANGED <<taxonomy_file, fs, df_tax, mode_i, df_merged, shared,
                 results_list, all_results, output_file>>

\* main, step 4: the records are concatenated, pivoted, rounded, printed
\* and written to the output file.
WriteReport ==
  /\ pc = "modes"
  /\ mode_i > Len(coverage_modes)
  /\ all_results # <<>>
  /\ Concat(all_results) # <<>>
  /\ LET pivot == pivot_table(Concat(all_results))
     IN  output_file' = [written |-> TRUE, index |-> pivot.index,
                         columns |-> pivot.columns, cell |-> pivot.cell]
  /\ pc' = "done"
  /\ UNCHANGED <<taxonomy_file, fs, df_tax, mode_i, df_merged, shared,
                 results_list, all_results>>

Next ==
  \/ TaxonomyError
  \/ LoadTaxonomy
  \/ SkipMode
  \/ MergeThresholds
  \/ MergeRaises
  \/ ScoreMode
  \/ ReturnMode
  \/ NoResults
  \/ PivotRaises
  \/ WriteReport

Spec == Init /\ [][Next]_vars

\* ------------------------------------------------------------- properties

\* The directory of the mode calculate_ari_for_mode is working on.
CurDir == fs[coverage_modes[mode_i]]

FileMissing(dir, t) == ClusterFileName(t) \notin DOMAIN dir.files

\* The records of results for one rank at one threshold.
RecordsFor(results, rank, t) ==
  SelectSeq(results, LAMBDA rec : /\ rec.Taxonomic_Rank = capitalize(rank)
                                  /\ rec.AAI_Threshold = Fmt2(t))

RankValue(df, r, rank) == df.rows[r][ColIndex(df.columns, rank)]

ClusterValue(df, r, t) == df.rows[r][ColIndex(df.columns, lower(ClusterCol(t)))]

\* The rows of a merged frame that the claims call valid for a rank and a
\* threshold: both labels present, the rank label neither "na" nor
\* "unclassified" whatever its case.
ValidIdx(df, rank, t) ==
  {r \in 1..Len(df.rows) :
     /\ RankValue(df, r, rank) # NaN
     /\ ClusterValue(df, r, t) # NaN
     /\ lower(RankValue(df, r, rank)) # na
     /\ lower(RankValue(df, r, rank)) # unclassified}

\* The members of a set of row numbers, in row order.
InOrder(df, idx) ==
  SelectSeq([r \in 1..Len(df.rows) |-> r], LAMBDA r : r \in idx)

PresentRanks(df) ==
  {taxonomic_ranks[k] : k \in {j \in 1..Len(taxonomic_ranks) :
                                 HasCol(df, taxonomic_ranks[j])}}

\* C1: once every threshold is merged, the merged table has exactly one row
\* per identifier of the reference table: no identifier of the reference is
\* repeated or lost and no other identifier has a row.
C1_OneRowPerReferenceId ==
  pc = "merged" =>
    LET merged_ids == Column(df_merged, Seq_ID)
        ref_ids == unique(Column(df_tax, Seq_ID))
    IN  /\ unique(merged_ids) \subseteq ref_ids
        /\ \A id \in ref_ids :
             Cardinality({r \in 1..Len(merged_ids) : merged_ids[r] = id}) = 1

\* C2: the score of every (rank, threshold) record is a number exactly when
\* there is more than one valid row and both the rank labels and the cluster
\* labels of the valid rows take more than one value; otherwise it is NaN.
C2_DefinedIffVariability ==
  pc = "scored" =>
    \A rank \in PresentRanks(df_merged) : \A t \in ThresholdSet :
      LET idx == ValidIdx(df_merged, rank, t)
          recs == RecordsFor(results_list, rank, t)
      IN  /\ Len(recs) = 1
          /\ recs[1].ARI_Score.defined <=>
               /\ Cardinality(idx) > 1
               /\ Cardinality({RankValue(df_merged, r, rank) : r \in idx}) > 1
               /\ Cardinality({ClusterValue(df_merged, r, t) : r \in idx}) > 1

\* C2 witness: a record over several valid rows that share one rank label
\* while their cluster labels differ, whose score is NaN.
C2_Witness ==
  /\ pc = "scored"
  /\ \E t \in ThresholdSet :
       LET idx == ValidIdx(df_merged, genus, t)
       IN  /\ HasCol(df_merged, genus)
           /\ Cardinality(idx) > 1
           /\ Cardinality({RankValue(df_merged, r, genus) : r \in idx}) = 1
           /\ Cardinality({ClusterValue(df_merged, r, t) : r \in idx}) > 1
           /\ ~RecordsFor(results_list, genus, t)[1].ARI_Score.defined

\* C3: N_Sequences counts exactly the merged rows with both labels present
\* and a rank label other than "na"/"unclassified" in any case, and a
\* defined score is the ARI of the labels of exactly those rows, in order.
C3_ValidRowsExact ==
  pc = "scored" =>
    \A rank \in PresentRanks(df_merged) : \A t \in ThresholdSet :
      LET idx == InOrder(df_merged, ValidIdx(df_merged, rank, t))
          rec == RecordsFor(results_list, rank, t)[1]
      IN  /\ rec.N_Sequences = Len(idx)
          /\ rec.ARI_Score.defined =>
               rec.ARI_Score = adjusted_rand_score(
                 [i \in 1..Len(idx) |-> RankValue(df_merged, idx[i], rank)],
                 [i \in 1..Len(idx) |-> ClusterValue(df_merged, idx[i], t)])

\* C3 witness: a defined score over fewer rows than have both labels
\* present, a row being excluded for its sentinel rank label.
C3_Witness ==
  /\ pc = "scored"
  /\ HasCol(df_merged, genus)
  /\ \E t \in ThresholdSet :
       /\ RecordsFor(results_list, genus, t)[1].ARI_Score.defined
       /\ \E r \in 1..Len(df_merged.rows) :
            /\ ClusterValue(df_merged, r, t) # NaN
            /\ RankValue(df_merged, r, genus) = Unclassified
            /\ r \notin ValidIdx(df_merged, genus, t)

\* The thresholds other than t, in order.
OtherThresholds(t) == SelectSeq(thresholds, LAMBDA x : x # t)

\* C4: when the file of one threshold is missing in an existing mode
\* directory, the call does not abort, the threshold's cluster column is
\* missing in every row, each present rank gets one record at that threshold
\* with a NaN score and N = 0, and the records of the other thresholds are
\* those of the run over the other thresholds alone.
C4_MissingFileDegrades ==
  /\ (pc = "modes" /\ mode_i <= Len(coverage_modes) /\ CurDir.isdir
        /\ (\A t \in ThresholdSet :
              ~FileMissing(CurDir, t) => CurDir.files[ClusterFileName(t)].readable))
     => ~merge_all(df_tax, CurDir, thresholds).raised
  /\ pc = "scored" =>
       \A t \in ThresholdSet : FileMissing(CurDir, t) =>
         /\ \A r \in 1..Len(df_merged.rows) : ClusterValue(df_merged, r, t) = NaN
         /\ \A rank \in PresentRanks(df_merged) :
              /\ RecordsFor(results_list, rank, t) =
                   <<[Coverage_Mode  |-> coverage_modes[mode_i],
                      Taxonomic_Rank |-> capitalize(rank),
                      AAI_Threshold  |-> Fmt2(t),
                      ARI_Score      |-> nan,
                      N_Sequences    |-> 0]>>
              /\ \A u \in ThresholdSet \ {t} :
                   RecordsFor(results_list, rank, u) =
                     <<score_record(
                         normalize_columns(
                           merge_all(df_tax, CurDir, OtherThresholds(t)).merged),
                         coverage_modes[mode_i], rank, u)>>

\* C4 witness: a scored mode with one file missing, a rank present, and a
\* defined score at another threshold.
C4_Witness ==
  /\ pc = "scored"
  /\ HasCol(df_merged, genus)
  /\ \E t \in ThresholdSet :
       /\ FileMissing(CurDir, t)
       /\ \E u \in ThresholdSet \ {t} :
            RecordsFor(results_list, genus, u)[1].ARI_Score.defined

\* C5: a cluster file that cannot be loaded never ends the process: no
\* failure leaves calculate_ari_for_mode.
C5_LoaderFailureContained ==
  ~(pc = "crashed" /\ mode_i <= Len(coverage_modes))

\* The run is over, by a return of main or by an exception of the report.
Finished ==
  \/ pc \in {"done", "aborted_taxonomy", "aborted_no_results"}
  \/ pc = "crashed" /\ mode_i > Len(coverage_modes)

\* No mode yielded usable data: no Score Record, or none with a defined score.
NoUsableData ==
  \A i \in 1..Len(Concat(all_results)) : ~Concat(all_results)[i].ARI_Score.defined

C7_NoRecordLost ==
  output_file.written =>
    \A i \in 1..Len(Concat(all_results)) :
      LET rec == Concat(all_results)[i]
          col == <<rec.Coverage_Mode, rec.AAI_Threshold>>
      IN  /\ rec.Taxonomic_Rank \in output_file.index
          /\ col \in output_file.columns
          /\ output_file.cell[<<rec.Taxonomic_Rank, col>>] = round4(rec.ARI_Score)

\* C8: when, over more than one valid row with at least two rank labels, the
\* cluster labels partition the rows as the rank labels do, the score is
\* exactly 1; with genus = [g1, g1, g2, g2] over A..D and the 0.90 file
\* {A:c1, B:c1, C:c2, D:c2}, the mode's only file, the Genus record at 0.90
\* has score 1 and N = 4.
C8_SamePartitionScoresOne ==
  pc = "scored" =>
    /\ \A rank \in PresentRanks(df_merged) : \A t \in ThresholdSet :
         LET idx == ValidIdx(df_merged, rank, t)
         IN  (/\ Cardinality(idx) > 1
              /\ Cardinality({RankValue(df_merged, r, rank) : r \in idx}) > 1
              /\ \A q, r \in idx :
                   (RankValue(df_merged, q, rank) = RankValue(df_merged, r, rank))
                     <=> (ClusterValue(df_merged, q, t) = ClusterValue(df_merged, r, t)))
             => RecordsFor(results_list, rank, t)[1].ARI_Score = One
    /\ (taxonomy_file = PartitionTaxFile /\ CurDir = OnlyFileDir(9, PartitionLines)) =>
         LET rec == RecordsFor(results_list, genus, 9)[1]
         IN  rec.ARI_Score = One /\ rec.N_Sequences = 4

\* C8 witness: the four-identifier example has been scored.
C8_Witness ==
  /\ pc = "scored"
  /\ taxonomy_file = PartitionTaxFile
  /\ CurDir = OnlyFileDir(9, PartitionLines)
  /\ RecordsFor(results_list, genus, 9)[1].N_Sequences = 4

\* The example of C9 has been scored: genus = [g1, g2, "Unclassified"] over
\* A, B, C and the 0.70 file {A:c1, B:c2, C:c1}, the mode's only file.
UnclassifiedExampleScored ==
  /\ pc = "scored"
  /\ taxonomy_file = UnclassifiedTaxFile
  /\ CurDir = OnlyFileDir(7, AlternatingLines)

\* C9 as stated: in the example the valid rows are A and B, N = 2, and the
\* Genus score at 0.70 is -1.
C9_ScoreMinusOne ==
  UnclassifiedExampleScored =>
    LET rec == RecordsFor(results_list, genus, 7)[1]
    IN  /\ {df_merged.rows[r][1] : r \in ValidIdx(df_merged, genus, 7)}
             = {<<"A">>, <<"B">>}
        /\ rec.N_Sequences = 2
        /\ rec.ARI_Score = Rat(-1, 1)

\* C9 amended: in the example the valid rows are A and B, N = 2, the
\* variability check passes and the Genus score at 0.70 is 1: the two
\* labelings are the same partition into two singletons.
C9_ScoreOne ==
  UnclassifiedExampleScored =>
    LET rec == RecordsFor(results_list, genus, 7)[1]
    IN  /\ {df_merged.rows[r][1] : r \in ValidIdx(df_merged, genus, 7)}
             = {<<"A">>, <<"B">>}
        /\ rec.N_Sequences = 2
        /\ rec.ARI_Score = One

\* C9 witness: the example has been scored with two valid rows.
C9_Witness ==
  /\ UnclassifiedExampleScored
  /\ RecordsFor(results_list, genus, 7)[1].N_Sequences = 2

\* The taxonomy frame as main loads it.
FreshTax == read_taxonomy(taxonomy_file)

\* The records of one mode run alone on the freshly loaded taxonomy frame.
RunAlone(mode) ==
  score_records(
    normalize_columns(merge_all(FreshTax, fs[mode], thresholds).merged), mode)

\* The modes main is past whose directory exists, in order.
ReturnedModes ==
  SelectSeq(SubSeq(coverage_modes, 1, mode_i - 1), LAMBDA m : fs[m].isdir)

\* C10: a mode without directory contributes no record and does not end the
\* run unless every mode lacks its directory; the taxonomy frame stays as
\* loaded, and the records of every mode are those of that mode run alone
\* on the freshly loaded frame.
C10_ModesIndependent ==
  (pc \notin {"load", "aborted_taxonomy"}) =>
    /\ df_tax = FreshTax
    /\ Len(all_results) = Len(ReturnedModes)
    /\ \A j \in 1..Len(all_results) : all_results[j] = RunAlone(ReturnedModes[j])
    /\ pc = "scored" => results_list = RunAlone(coverage_modes[mode_i])
    /\ pc = "aborted_no_results" => \A m \in ModeSet : ~fs[m].isdir

\* C10 witness: the run completed although the first mode has no directory,
\* the second having returned records with a defined score.
C10_Witness ==
  /\ pc = "done"
  /\ ~fs[coverage_modes[1]].isdir
  /\ Len(all_results) = 1
  /\ \E i \in 1..Len(all_results[1]) : all_results[1][i].ARI_Score.defined
====
